---- MODULE Spec2Model ----
(***************************************************************************)
(* ZenVibe: the AI gateway (services/geminiService.ts) and the tab bar     *)
(* (components/Navigation.tsx).                                            *)
(*                                                                         *)
(* Strings the code inspects character by character (the text of a model   *)
(* answer) are sequences of one-character strings.  A fixed sentence of    *)
(* the code is a one-element sequence holding the whole sentence.          *)
(* A JavaScript value is a record tagged by its type in field t.           *)
(* A quiz score is an integer number of hundredths (701 is 7.01).          *)
(***************************************************************************)
EXTENDS Bags, FiniteSets, Integers, Sequences, TLC

VARIABLES
    env,        \* the environment the module is loaded in (never changes)
    pc,         \* "loading" before the module body has run, "ready" after
    ai,         \* the exported client handle: "null" or "client"
    inflight,   \* bag of invocations suspended at their await
    last,       \* the invocation that returned most recently
    nCalls,     \* invocations made so far
    nAvail,     \* invocations made while the handle was a client
    nReq,       \* requests handed to ai.models.generateContent so far
    activeTab,  \* the parent's active tab (the activeTab prop)
    rendered,   \* the tab the last render highlighted
    clicks,     \* the tabs whose button was clicked, in order
    calls       \* the arguments setActiveTab was called with, in order

gatewayVars == <<env, pc, ai, inflight, last, nCalls, nAvail, nReq>>
navVars == <<activeTab, rendered, clicks, calls>>
vars == <<env, pc, ai, inflight, last, nCalls, nAvail, nReq, activeTab, rendered, clicks, calls>>

----------------------------------------------------------------------------
(* Bounds *)

MaxCalls == 3       \* invocations of gateway operations in one behaviour
MaxLen == 4         \* characters of a model answer
MaxClicks == 3      \* clicks on the tab bar in one behaviour

----------------------------------------------------------------------------
(* JavaScript values *)

Undefined == "undefined"

JsUndefined == [t |-> "undefined", v |-> ""]
JsNull == [t |-> "null", v |-> ""]
JsTrue == [t |-> "boolean", v |-> "true"]
JsFalse == [t |-> "boolean", v |-> "false"]
JsNumber == [t |-> "number", v |-> "1"]
JsString(s) == [t |-> "string", v |-> s]

JsObject(p, r, s) == [t |-> "object", isPositive |-> p, reason |-> r, isSevere |-> s]

Quote == "\""
Space == " "
Letter == "a"
Alphabet == {Quote, Space, Letter}

RECURSIVE TextsOfLen(_)
TextsOfLen(n) ==
    IF n = 0 THEN {<<>>}
    ELSE {Append(t, c) : t \in TextsOfLen(n - 1), c \in Alphabet}

Texts == UNION {TextsOfLen(n) : n \in 0..MaxLen}

\* answers the gateway specification draws from
SampleTexts == {<<>>, <<Letter>>, <<Quote>>, <<Space, Quote, Letter, Quote>>}

Contents == {"I feel sad today", "hi"}

\* hundredths: 3.95, 3.99, 4.0, 7.0, 7.01, 7.05 and the ends of [0, 10]
Scores == {0, 395, 399, 400, 700, 701, 705, 1000}

----------------------------------------------------------------------------
(* String and JSON primitives of the JavaScript runtime *)

IsSpace(c) == c = Space

RECURSIVE TrimStart(_)
TrimStart(s) ==
    IF Len(s) > 0 /\ IsSpace(s[1]) THEN TrimStart(Tail(s)) ELSE s

RECURSIVE TrimEnd(_)
TrimEnd(s) ==
    IF Len(s) > 0 /\ IsSpace(s[Len(s)]) THEN TrimEnd(SubSeq(s, 1, Len(s) - 1)) ELSE s

\* String.prototype.trim
Trim(s) == TrimEnd(TrimStart(s))

StartsWith(s, c) == Len(s) >= 1 /\ s[1] = c
EndsWith(s, c) == Len(s) >= 1 /\ s[Len(s)] = c

Clamp(i, n) == IF i < 0 THEN 0 ELSE IF i > n THEN n ELSE i

\* a substring that does not exchange its arguments: start > end yields ""
SubstringNoSwap(s, start, end) ==
    SubSeq(s, Clamp(start, Len(s)) + 1, Clamp(end, Len(s)))

\* String.prototype.substring(start, end): both indices are clamped to
\* [0, length] and exchanged when start > end; the characters at the
\* 0-based positions [start, end) are returned.
Substring(s, start, end) ==
    LET a == Clamp(start, Len(s))
        b == Clamp(end, Len(s))
        lo == IF a <= b THEN a ELSE b
        hi == IF a <= b THEN b ELSE a
    IN SubSeq(s, lo + 1, hi)

\* The text of a JSON answer: either not JSON at all, or the document doc.
InvalidJson == [valid |-> FALSE]
ValidJson(d) == [valid |-> TRUE, doc |-> d]

\* JSON.parse: throws a SyntaxError on text that is not JSON, and returns
\* the document otherwise, whatever its shape.
JsonParse(j) ==
    IF j.valid THEN [threw |-> FALSE, value |-> j.doc] ELSE [threw |-> TRUE]

\* the hundredths ending in 5 whose double is at or above the decimal tie
TieRoundsUp ==
    {5, 25, 45, 55, 65, 75, 105, 125, 135, 155, 175, 185, 225, 235, 245, 275,
     285, 295, 325, 335, 345, 375, 385, 395, 415, 425, 445, 465, 475, 495,
     515, 525, 545, 565, 575, 595, 615, 625, 645, 665, 675, 695, 715, 725,
     745, 765, 775, 795, 805, 815, 825, 855, 865, 875, 905, 915, 925, 955,
     965, 975}

\* Number.prototype.toFixed(1) of h / 100: the nearest tenth of the double,
\* the larger one on an exact tie, written with one fraction digit.
ToFixed1(h) ==
    LET r == h % 10
        n == (h \div 10) + (IF r > 5 \/ (r = 5 /\ h \in TieRoundsUp) THEN 1 ELSE 0)
    IN ToString(n \div 10) \o "." \o ToString(n % 10)

----------------------------------------------------------------------------
(* Module initialisation *)

Envs ==
    [processDefined : BOOLEAN, apiKey : {Undefined, "", "secret"}, ctorThrows : BOOLEAN]

\* lines 7-18: the key, or undefined when process, process.env or the key is
\* missing or empty
GetApiKey(e) ==
    IF e.processDefined /\ e.apiKey # Undefined /\ e.apiKey # ""
    THEN e.apiKey
    ELSE Undefined

\* line 25: if (API_KEY)
Truthy(k) == k # Undefined /\ k # ""

\* an initialisation whose catch leaves the handle set
InitialHandleKeepsClient(e) ==
    IF Truthy(GetApiKey(e)) THEN "client" ELSE "null"

\* the value of ai once the module body has run
InitialHandle(e) ==
    IF Truthy(GetApiKey(e))
    THEN (IF e.ctorThrows THEN "null" ELSE "client")
    ELSE "null"

----------------------------------------------------------------------------
(* Requests, outcomes and results *)

\* an unavailable-service value that lets the content through
ModerationUnavailableApproves ==
    JsObject(JsTrue, JsString("Moderation service is currently unavailable."), JsFalse)

ModerationUnavailable ==
    JsObject(JsFalse, JsString("Moderation service is currently unavailable."), JsFalse)

\* a failure fallback that raises the severe flag
ModerationFailureSevere ==
    JsObject(JsFalse,
             JsString("Could not check your message at this time. Please try again later."),
             JsTrue)

ModerationFailure ==
    JsObject(JsFalse,
             JsString("Could not check your message at this time. Please try again later."),
             JsFalse)

ReplyFallback ==
    <<"Thanks for sharing. It takes courage to open up, and you're not alone in feeling this way.">>

QuizFallback ==
    <<"Thank you for sharing how you feel. Remember that every step, big or small, is part of your journey.">>

ModerationRequest(content) ==
    [model |-> "gemini-2.5-flash", template |-> "Analyze the following text",
     arg |-> content, responseSchema |-> TRUE]

ReplyRequest(postContent) ==
    [model |-> "gemini-2.5-flash", template |-> "A teen posted this on a peer support app",
     arg |-> postContent, responseSchema |-> FALSE]

QuizRequest(score) ==
    [model |-> "gemini-2.5-flash", template |-> "A teen in a mental wellness app just scored",
     arg |-> ToFixed1(score), responseSchema |-> FALSE]

\* What the awaited generateContent call can do.
NotCalled == [kind |-> "none"]
Rejected == [kind |-> "rejected"]
NoText == [kind |-> "resolved", hasText |-> FALSE]
Resolved(text) == [kind |-> "resolved", hasText |-> TRUE, text |-> text]

Answered(o) == o.kind = "resolved" /\ o.hasText

BoolFields == {JsUndefined, JsTrue, JsFalse, JsString("yes")}
ReasonFields == {JsUndefined, JsString("ok"), JsNumber}

Docs ==
    {JsObject(p, r, s) : p \in BoolFields, r \in ReasonFields, s \in BoolFields}
        \cup {JsNull}

ModerationOutcomes ==
    {Rejected, NoText, Resolved(InvalidJson)} \cup {Resolved(ValidJson(d)) : d \in Docs}

TextOutcomes(T) == {Rejected, NoText} \cup {Resolved(t) : t \in T}

\* lines 70-81: the value moderateContent returns once the call has settled
ModerateResult(o) ==
    IF ~Answered(o) THEN ModerationFailure
    ELSE LET parsed == JsonParse(o.text)
         IN IF parsed.threw THEN ModerationFailure ELSE parsed.value

RECURSIVE StripQuotesRepeatedly(_)
StripQuotesRepeatedly(text) ==
    IF Len(text) >= 2 /\ StartsWith(text, Quote) /\ EndsWith(text, Quote)
    THEN StripQuotesRepeatedly(Substring(text, 1, Len(text) - 1))
    ELSE text

\* a clean-up that strips wrapping quotes for as long as there are any
ReplyCleanUpRepeated(text) == StripQuotesRepeatedly(Trim(text))

\* a clean-up that forgets to trim
QuizCleanUpUntrimmed(text) ==
    IF StartsWith(text, Quote) /\ EndsWith(text, Quote)
    THEN Substring(text, 1, Len(text) - 1)
    ELSE text

\* lines 97-102: replyText
ReplyCleanUp(text) ==
    LET replyText == Trim(text)
    IN IF StartsWith(replyText, Quote) /\ EndsWith(replyText, Quote)
       THEN Substring(replyText, 1, Len(replyText) - 1)
       ELSE replyText

\* lines 122-127: feedbackText
QuizCleanUp(text) ==
    LET feedbackText == Trim(text)
    IN IF StartsWith(feedbackText, Quote) /\ EndsWith(feedbackText, Quote)
       THEN Substring(feedbackText, 1, Len(feedbackText) - 1)
       ELSE feedbackText

\* lines 97-106: reading response.text of a missing text throws into the catch
ReplyResult(o) == IF ~Answered(o) THEN ReplyFallback ELSE ReplyCleanUp(o.text)

\* lines 122-131
QuizResult(o) == IF ~Answered(o) THEN QuizFallback ELSE QuizCleanUp(o.text)

----------------------------------------------------------------------------
(* The gateway: module body and the three exported operations *)

NoCall ==
    [op |-> "none", content |-> "", score |-> 0, available |-> FALSE,
     requests |-> 0, outcome |-> NotCalled, result |-> JsUndefined]

Pending(op, content, score, request) ==
    [op |-> op, content |-> content, score |-> score, request |-> request,
     requests |-> 1]

Returned(c, available, o, result) ==
    [op |-> c.op, content |-> c.content, score |-> c.score, available |-> available,
     requests |-> c.requests, outcome |-> o, result |-> result]

One(c) == SetToBag({c})

InitGateway ==
    /\ env \in Envs
    /\ pc = "loading"
    /\ ai = "null"
    /\ inflight = EmptyBag
    /\ last = NoCall
    /\ nCalls = 0
    /\ nAvail = 0
    /\ nReq = 0

\* lines 20-34
ModuleInit ==
    /\ pc = "loading"
    /\ ai' = InitialHandle(env)
    /\ pc' = "ready"
    /\ UNCHANGED <<env, inflight, last, nCalls, nAvail, nReq>>

\* the handle is null: return the fixed value, no request
ReturnUnavailable(op, content, score, value) ==
    /\ last' = [op |-> op, content |-> content, score |-> score, available |-> FALSE,
                requests |-> 0, outcome |-> NotCalled, result |-> value]
    /\ nCalls' = nCalls + 1
    /\ UNCHANGED <<env, pc, ai, inflight, nAvail, nReq>>

\* the handle is a client: hand the request to generateContent and suspend
Suspend(op, content, score, request) ==
    /\ inflight' = inflight (+) One(Pending(op, content, score, request))
    /\ nCalls' = nCalls + 1
    /\ nAvail' = nAvail + 1
    /\ nReq' = nReq + 1
    /\ UNCHANGED <<env, pc, ai, last>>

\* lines 55-68
CallModerateContent(content) ==
    /\ pc = "ready"
    /\ nCalls < MaxCalls
    /\ IF ai = "null"
       THEN ReturnUnavailable("moderate", content, 0, ModerationUnavailable)
       ELSE Suspend("moderate", content, 0, ModerationRequest(content))

\* lines 84-95
CallGenerateSupportiveReply(postContent) ==
    /\ pc = "ready"
    /\ nCalls < MaxCalls
    /\ IF ai = "null"
       THEN ReturnUnavailable("reply", postContent, 0, ReplyFallback)
       ELSE Suspend("reply", postContent, 0, ReplyRequest(postContent))

\* lines 109-120
CallGetQuizFeedback(score) ==
    /\ pc = "ready"
    /\ nCalls < MaxCalls
    /\ IF ai = "null"
       THEN ReturnUnavailable("quiz", "", score, QuizFallback)
       ELSE Suspend("quiz", "", score, QuizRequest(score))

\* the awaited call settles with o and the invocation returns value
Settle(c, o, value) ==
    /\ BagIn(c, inflight)
    /\ inflight' = inflight (-) One(c)
    /\ last' = Returned(c, TRUE, o, value)
    /\ UNCHANGED <<env, pc, ai, nCalls, nAvail, nReq>>

\* a catch block that asks the model once more before giving up
SettleReplyWithRetry(c, o) ==
    /\ c.op = "reply"
    /\ BagIn(c, inflight)
    /\ IF ~Answered(o) /\ c.requests < 2
       THEN /\ inflight' = (inflight (-) One(c)) (+) One([c EXCEPT !.requests = 2])
            /\ nReq' = nReq + 1
            /\ UNCHANGED <<env, pc, ai, last, nCalls, nAvail>>
       ELSE Settle(c, o, ReplyResult(o))

\* lines 70-81
SettleModerateContent(c, o) ==
    /\ c.op = "moderate"
    /\ Settle(c, o, ModerateResult(o))

\* lines 97-106
SettleGenerateSupportiveReply(c, o) ==
    /\ c.op = "reply"
    /\ Settle(c, o, ReplyResult(o))

\* lines 122-131
SettleGetQuizFeedback(c, o) ==
    /\ c.op = "quiz"
    /\ Settle(c, o, QuizResult(o))

----------------------------------------------------------------------------
(* The tab bar *)

Tabs == {"discussion", "chatbot", "resources", "help"}

\* lines 11-16
NavItems == <<"discussion", "chatbot", "resources", "help">>

\* lines 21-34: the colour class each button is rendered with
Render(active) ==
    [i \in 1..Len(NavItems) |->
        IF active = NavItems[i] THEN "text-violet-400"
        ELSE "text-slate-400 hover:text-violet-300"]

InitNav ==
    /\ activeTab \in Tabs
    /\ rendered = Render(activeTab)
    /\ clicks = <<>>
    /\ calls = <<>>

\* the caller's setActiveTab: it takes the tab over or leaves its state as it is
SetActiveTab(tab, accept) ==
    /\ calls' = Append(calls, tab)
    /\ activeTab' = IF accept THEN tab ELSE activeTab

\* a tab bar that keeps the selection in a state of its own
ClickWithLocalState(i) ==
    /\ Len(clicks) < MaxClicks
    /\ clicks' = Append(clicks, NavItems[i])
    /\ \E accept \in BOOLEAN : SetActiveTab(NavItems[i], accept)
    /\ rendered' = Render(NavItems[i])
    /\ UNCHANGED gatewayVars

\* line 24: onClick of the i-th button, and the render that follows
Click(i) ==
    /\ Len(clicks) < MaxClicks
    /\ clicks' = Append(clicks, NavItems[i])
    /\ \E accept \in BOOLEAN : SetActiveTab(NavItems[i], accept)
    /\ rendered' = Render(activeTab')
    /\ UNCHANGED gatewayVars

\* line 10: the parent renders the component with another activeTab
Rerender(tab) ==
    /\ tab # activeTab
    /\ activeTab' = tab
    /\ rendered' = Render(tab)
    /\ UNCHANGED <<clicks, calls>>
    /\ UNCHANGED gatewayVars

----------------------------------------------------------------------------
(* Specifications *)

NavIdle ==
    /\ activeTab = "discussion"
    /\ rendered = Render("discussion")
    /\ clicks = <<>>
    /\ calls = <<>>

Init == InitGateway /\ NavIdle

Next ==
    \/ ModuleInit /\ UNCHANGED navVars
    \/ \E content \in Contents : CallModerateContent(content) /\ UNCHANGED navVars
    \/ \E content \in Contents : CallGenerateSupportiveReply(content) /\ UNCHANGED navVars
    \/ \E score \in Scores : CallGetQuizFeedback(score) /\ UNCHANGED navVars
    \/ \E c \in BagToSet(inflight), o \in ModerationOutcomes :
          SettleModerateContent(c, o) /\ UNCHANGED navVars
    \/ \E c \in BagToSet(inflight), o \in TextOutcomes(SampleTexts) :
          SettleGenerateSupportiveReply(c, o) /\ UNCHANGED navVars
    \/ \E c \in BagToSet(inflight), o \in TextOutcomes(SampleTexts) :
          SettleGetQuizFeedback(c, o) /\ UNCHANGED navVars

\* the gateway: module load, invocations and their completions
Spec == Init /\ [][Next]_vars

Loaded ==
    /\ env = [processDefined |-> TRUE, apiKey |-> "secret", ctorThrows |-> FALSE]
    /\ pc = "ready"
    /\ ai = InitialHandle(env)
    /\ inflight = EmptyBag
    /\ last = NoCall
    /\ nCalls = 0
    /\ nAvail = 0
    /\ nReq = 0

InitNavSpec == Loaded /\ InitNav

NextNav ==
    \/ \E i \in 1..Len(NavItems) : Click(i)
    \/ \E tab \in Tabs : Rerender(tab)

\* the tab bar under clicks and re-renders
SpecNav == InitNavSpec /\ [][NextNav]_vars

\* one text-generating invocation is suspended at its await
InitText ==
    /\ env = [processDefined |-> TRUE, apiKey |-> "secret", ctorThrows |-> FALSE]
    /\ pc = "ready"
    /\ ai = InitialHandle(env)
    /\ \/ \E content \in Contents :
             inflight = One(Pending("reply", content, 0, ReplyRequest(content)))
       \/ \E score \in Scores :
             inflight = One(Pending("quiz", "", score, QuizRequest(score)))
    /\ last = NoCall
    /\ nCalls = 1
    /\ nAvail = 1
    /\ nReq = 1
    /\ NavIdle

NextText ==
    \/ \E c \in BagToSet(inflight), o \in TextOutcomes(Texts) :
          SettleGenerateSupportiveReply(c, o) /\ UNCHANGED navVars
    \/ \E c \in BagToSet(inflight), o \in TextOutcomes(Texts) :
          SettleGetQuizFeedback(c, o) /\ UNCHANGED navVars

\* the clean-up of a model answer, over every answer of up to MaxLen characters
SpecText == InitText /\ [][NextText]_vars

----------------------------------------------------------------------------
(* Properties *)

IsModerationResult(v) ==
    /\ v.t = "object"
    /\ v.isPositive.t = "boolean"
    /\ v.reason.t = "string"
    /\ v.isSevere.t = "boolean"

TextOps == {"reply", "quiz"}

\* t is raw without its leading and trailing spaces
IsTrimOf(t, raw) ==
    \E i, j \in 0..Len(raw) :
        /\ i + j + Len(t) = Len(raw)
        /\ t = SubSeq(raw, i + 1, Len(raw) - j)
        /\ \A k \in 1..i : raw[k] = Space
        /\ \A k \in (Len(raw) - j + 1)..Len(raw) : raw[k] = Space
        /\ Len(t) > 0 => (t[1] # Space /\ t[Len(t)] # Space)

Infixes(raw) == {SubSeq(raw, i, j) : i \in 1..(Len(raw) + 1), j \in 0..Len(raw)}

Wrapped(t) == Len(t) >= 1 /\ t[1] = Quote /\ t[Len(t)] = Quote

\* the band of a score: above 7, 4 to 7, under 4
Band(score) ==
    IF score > 700 THEN "gentle" ELSE IF score >= 400 THEN "mid-range" ELSE "celebratory"

\* C1: every invocation returns a value of its declared type; the value
\* moderateContent returns always has isPositive (boolean), reason (string)
\* and isSevere (boolean).
C1_ResultsFullyPopulated ==
    /\ last.op = "moderate" => IsModerationResult(last.result)
    /\ last.op \in TextOps => last.result \in Seq(STRING)

\* C2: while the handle is null every operation returns its fixed fallback
\* value and no request is ever issued.
C2_UnavailableReturnsFallback ==
    (pc = "ready" /\ ai = "null") =>
        /\ nReq = 0
        /\ inflight = EmptyBag
        /\ last.op # "none" => ~last.available /\ last.requests = 0
        /\ last.op = "moderate" =>
              last.result =
                  JsObject(JsFalse,
                           JsString("Moderation service is currently unavailable."),
                           JsFalse)
        /\ last.op = "reply" =>
              last.result =
                  <<"Thanks for sharing. It takes courage to open up, and you're not alone in feeling this way.">>
        /\ last.op = "quiz" =>
              last.result =
                  <<"Thank you for sharing how you feel. Remember that every step, big or small, is part of your journey.">>

C2_Witness ==
    /\ ai = "null"
    /\ last.op = "moderate"
    /\ last.content = "I feel sad today"
    /\ nCalls >= 2

\* C3: moderateContent returns isSevere = false whenever its result does not
\* come from a model response (handle null, call rejected, no text, text
\* that is not JSON); isSevere = true is returned only for an answered call.
C3_SevereOnlyFromModel ==
    last.op = "moderate" =>
        ((~last.available \/ ~Answered(last.outcome) \/ ~last.outcome.text.valid)
            => last.result.isSevere = JsFalse)

C3_Witness ==
    /\ last.op = "moderate"
    /\ last.available
    /\ last.outcome = Rejected
    /\ last.result.isSevere = JsFalse

\* C4: a JSON answer that violates the schema (a required field missing or
\* of the wrong type) makes moderateContent return the failure fallback.
C4_SchemaViolationFallsBack ==
    (/\ last.op = "moderate"
     /\ Answered(last.outcome)
     /\ last.outcome.text.valid
     /\ ~IsModerationResult(last.outcome.text.doc))
        => last.result =
              JsObject(JsFalse,
                       JsString("Could not check your message at this time. Please try again later."),
                       JsFalse)

\* C5: the request getQuizFeedback issues is the variant of the score's
\* band, so the requests of two scores in different bands differ (7.0 and
\* 7.01, 4.0 and 3.99).
C5_BandsRouteDistinctRequests ==
    \A c, d \in BagToSet(inflight) :
        (c.op = "quiz" /\ d.op = "quiz" /\ Band(c.score) # Band(d.score))
            => c.request # d.request

\* C6 as stated: an answered text-generating call returns the trimmed text
\* without its first and last character whenever the trimmed text starts
\* and ends with a double quote, and the trimmed text otherwise.
C6_WrappedLosesFirstAndLast ==
    (last.op \in TextOps /\ Answered(last.outcome)) =>
        /\ \E t \in Infixes(last.outcome.text) : IsTrimOf(t, last.outcome.text)
        /\ \A t \in Infixes(last.outcome.text) :
              IsTrimOf(t, last.outcome.text) =>
                  last.result = IF Wrapped(t) THEN SubSeq(t, 2, Len(t) - 1) ELSE t

\* C6 amended: an answered text-generating call returns the trimmed text
\* without its first and last character when the trimmed text has at least
\* two characters and starts and ends with a double quote, and the trimmed
\* text unchanged otherwise; the quotes are removed once, inner characters
\* are kept, and both operations clean up alike.
C6_OnePairStrippedOnce ==
    (last.op \in TextOps /\ Answered(last.outcome)) =>
        /\ \E t \in Infixes(last.outcome.text) : IsTrimOf(t, last.outcome.text)
        /\ \A t \in Infixes(last.outcome.text) :
              IsTrimOf(t, last.outcome.text) =>
                  last.result =
                      IF Len(t) >= 2 /\ Wrapped(t) THEN SubSeq(t, 2, Len(t) - 1) ELSE t

C6_Witness ==
    /\ last.op = "reply"
    /\ last.outcome = Resolved(<<Quote, Quote, Quote, Quote>>)
    /\ last.result = <<Quote, Quote>>

\* C7: every click on a tab calls setActiveTab exactly once with that tab,
\* in click order, and what the tab bar shows stays a function of the
\* parent's active tab alone.
C7_ClickCallsBackOnce ==
    /\ calls = clicks
    /\ rendered = Render(activeTab)

C7_Witness ==
    /\ activeTab = "chatbot"
    /\ clicks = <<"resources", "chatbot">>
    /\ calls = <<"resources", "chatbot">>

\* C8: once the module is loaded the handle is a client exactly when the
\* key was present and non-empty and the constructor did not throw, and it
\* keeps that value whatever operations run afterwards.
C8_HandleFixedAtLoad ==
    pc = "ready" =>
        ai = IF /\ env.processDefined
                /\ env.apiKey # Undefined
                /\ env.apiKey # ""
                /\ ~env.ctorThrows
             THEN "client"
             ELSE "null"

C8_Witness ==
    /\ pc = "ready"
    /\ env.apiKey = "secret"
    /\ env.ctorThrows
    /\ ai = "null"
    /\ nCalls >= 2

\* C9: an invocation issues at most one request, also when that request
\* fails, so the requests issued never outnumber the invocations made while
\* the handle was a client.
C9_AtMostOneRequest ==
    /\ nReq <= nAvail
    /\ last.requests <= 1
    /\ \A c \in BagToSet(inflight) : c.requests <= 1

C9_Witness ==
    /\ last.op = "reply"
    /\ last.available
    /\ last.outcome = Rejected
    /\ last.requests = 1
    /\ nReq = nAvail
    /\ nAvail >= 2

\* C10: when the trimmed answer is the single character ", that character
\* is returned; when it has two or more characters and starts and ends with
\* ", the returned text is exactly two characters shorter.
C10_LoneQuoteKept ==
    (last.op \in TextOps /\ Answered(last.outcome)) =>
        \A t \in Infixes(last.outcome.text) :
            IsTrimOf(t, last.outcome.text) =>
                /\ t = <<Quote>> => last.result = <<Quote>>
                /\ (Len(t) >= 2 /\ Wrapped(t)) => Len(last.result) = Len(t) - 2

C10_Witness ==
    /\ last.op = "quiz"
    /\ last.outcome = Resolved(<<Space, Quote, Space>>)
    /\ last.result = <<Quote>>

====
